---- MODULE Spec2Model ----
(***************************************************************************)
(* QuizBot front end: the quiz protocol carried in chat message bodies.    *)
(*                                                                         *)
(* A JavaScript string is modelled as a sequence of pieces.  A piece is a  *)
(* literal fragment of text that the regular expressions and substring     *)
(* tests of the code treat as a unit ("[CORRECT:", "Correct", a letter, a  *)
(* blank, a line break, a run of ordinary text).  The string is the        *)
(* concatenation of its pieces.  U+2705 and U+274C are written CheckMark   *)
(* and CrossMark.                                                          *)
(***************************************************************************)
EXTENDS Naturals, Integers, Sequences, FiniteSets, TLC

CheckMark == "<U+2705>"
CrossMark == "<U+274C>"
NL == "\n"
SP == " "
Letters == {"A", "B", "C", "D"}
LetterOrder == <<"A", "B", "C", "D">>

\* MessageRole
USER == "user"
ASSISTANT == "assistant"
SYSTEM == "system"
MessageRole == {USER, ASSISTANT, SYSTEM}

-----------------------------------------------------------------------------
(* String primitives *)

\* \s of a regular expression, and the characters trim() removes
IsSpace(p) == p \in {SP, NL}

MinOf(S) == CHOOSE m \in S : \A n \in S : m <= n

RECURSIVE splitFrom(_, _, _)
splitFrom(content, i, cur) ==
  IF i > Len(content) THEN <<cur>>
  ELSE IF content[i] = NL THEN <<cur>> \o splitFrom(content, i + 1, <<>>)
  ELSE splitFrom(content, i + 1, Append(cur, content[i]))

\* content.split('\n')
split(content) == splitFrom(content, 1, <<>>)

RECURSIVE trimStart(_)
trimStart(s) == IF s # <<>> /\ IsSpace(Head(s)) THEN trimStart(Tail(s)) ELSE s

RECURSIVE trimEnd(_)
trimEnd(s) ==
  IF s # <<>> /\ IsSpace(s[Len(s)]) THEN trimEnd(SubSeq(s, 1, Len(s) - 1)) ELSE s

\* String.prototype.trim
trim(s) == trimEnd(trimStart(s))

\* String.prototype.includes
includes(s, pat) ==
  \E i \in 1..(Len(s) - Len(pat) + 1) : SubSeq(s, i, i + Len(pat) - 1) = pat

\* String.prototype.startsWith
startsWith(s, pat) == Len(s) >= Len(pat) /\ SubSeq(s, 1, Len(pat)) = pat

\* s.replace(/\*\*/g, '')
removeBold(s) == SelectSeq(s, LAMBDA p : p # "**")

RECURSIVE join(_)
\* lines.join('\n')
join(lines) ==
  IF lines = <<>> THEN <<>>
  ELSE IF Len(lines) = 1 THEN lines[1]
  ELSE lines[1] \o <<NL>> \o join(Tail(lines))

RECURSIVE skipSpaces(_, _)
\* the first position at or after i that holds no white space (greedy \s*)
skipSpaces(s, i) ==
  IF i <= Len(s) /\ IsSpace(s[i]) THEN skipSpaces(s, i + 1) ELSE i

-----------------------------------------------------------------------------
(* parseQuizQuestion *)

MaxOf(S) == CHOOSE m \in S : \A n \in S : m >= n

\* where (.+) of /[A-D]\.\s+.+/ can start for a match that starts at i: after
\* the letter, the dot and white space (a line break is white space), at a
\* character that is not a line break
optionTails(content, i) ==
  IF /\ i + 3 <= Len(content)
     /\ content[i] \in Letters
     /\ content[i + 1] = "."
     /\ IsSpace(content[i + 2])
  THEN {j \in (i + 3)..Len(content) :
          /\ \A k \in (i + 2)..(j - 1) : IsSpace(content[k])
          /\ content[j] # NL}
  ELSE {}

\* the end of the line that holds position j
lineEnd(content, j) ==
  LET breaks == {k \in j..Len(content) : content[k] = NL}
  IN IF breaks = {} THEN Len(content) ELSE MinOf(breaks) - 1

\* RegExp.prototype.test of a regular expression with the g flag: the search
\* starts at lastIndex; a match (the leftmost one, \s+ and .+ greedy) leaves
\* lastIndex at its end, a failure leaves 0
regexTest(content, lastIndex) ==
  LET starts == {i \in (lastIndex + 1)..Len(content) :
                   optionTails(content, i) # {}}
  IN IF starts = {} THEN [found |-> FALSE, lastIndex |-> 0]
     ELSE [found |-> TRUE,
           lastIndex |-> lineEnd(content,
                                 MaxOf(optionTails(content, MinOf(starts))))]

\* variant of newRegExp: one regular expression object shared by all calls
sharedRegExp(lastIndex) == lastIndex

\* the literal /[A-D]\.\s+.+/g is evaluated inside parseQuizQuestion: every
\* call gets a new object, with lastIndex 0, whatever the last call left
newRegExp(lastIndex) == 0

\* /[A-D]\.\s+.+/g.test(content)
hasOptionsTest(content) == regexTest(content, newRegExp(0)).found

NoMatch == [matched |-> FALSE, letter |-> "", text |-> <<>>]

\* trimmedLine.match(/\[CORRECT:([A-D])\]/): group 1 of the leftmost match
correctAnswerMatch(t) ==
  LET hits == {i \in 1..(Len(t) - 2) :
                 t[i] = "[CORRECT:" /\ t[i + 1] \in Letters /\ t[i + 2] = "]"}
  IN IF hits = {} THEN NoMatch
     ELSE [matched |-> TRUE, letter |-> t[MinOf(hits) + 1], text |-> <<>>]

\* /([A-D])\.\s+(.+)$/ anchored at position i of a line: \s+ is greedy and
\* gives one blank back to (.+) when nothing else is left for it
optionAt(s, i) ==
  IF i + 2 <= Len(s) /\ s[i] \in Letters /\ s[i + 1] = "." /\ IsSpace(s[i + 2])
  THEN LET j == skipSpaces(s, i + 2)
       IN IF j <= Len(s)
          THEN [matched |-> TRUE, letter |-> s[i], text |-> SubSeq(s, j, Len(s))]
          ELSE IF j - 1 > i + 2
          THEN [matched |-> TRUE, letter |-> s[i], text |-> <<s[Len(s)]>>]
          ELSE NoMatch
  ELSE NoMatch

\* variant of markedMatch without the \s* after the mark: a marked option
\* written with a blank is no option
markedMatchNoBlank(mark, s) ==
  IF s # <<>> /\ s[1] = mark THEN optionAt(s, 2) ELSE NoMatch

\* s.match(/^<mark>\s*([A-D])\.\s+(.+)$/)
markedMatch(mark, s) ==
  IF s # <<>> /\ s[1] = mark THEN optionAt(s, skipSpaces(s, 2)) ELSE NoMatch

\* trimmedLine.match(/^([A-D])\.\s+(.+)$/)
normalMatch(t) == optionAt(t, 1)

orMatch(m1, m2) == IF m1.matched THEN m1 ELSE m2

\* trimmedLine.includes('<check> Correct') || trimmedLine.includes('<cross> Incorrect')
isFeedbackLine(t) ==
  \/ includes(t, <<CheckMark, SP, "Correct">>)
  \/ includes(t, <<CrossMark, SP, "Incorrect">>)

\* variant of isFooterLine that takes no line for a footer
neverFooterLine(t) == FALSE

\* trimmedLine.includes('Type your answer') || trimmedLine.includes("or 'stop' to end")
isFooterLine(t) ==
  \/ includes(t, <<"Type your answer">>)
  \/ includes(t, <<"or 'stop' to end">>)

\* variant of Option that takes the letter from group 2 of the match
OptionGroupTwo(m, status) ==
  [letter |-> IF m.text = <<>> THEN "" ELSE m.text[1], text |-> trim(m.text),
   status |-> status]

\* variant of Option that leaves the text as matched, without trim()
OptionUntrimmed(m, status) == [letter |-> m.letter, text |-> m.text, status |-> status]

\* options.push({ letter: match[1], text: match[2].trim(), status })
Option(m, status) == [letter |-> m.letter, text |-> trim(m.text), status |-> status]

ScanInit ==
  [questionLines |-> <<>>, options |-> <<>>, feedbackMessage |-> <<>>,
   isAnswered |-> FALSE, correctAnswerLetter |-> "", foundOptions |-> FALSE]

\* one iteration of `for (const line of lines)`
scanLine(acc, line) ==
  LET trimmedLine == trim(line)
      cam == correctAnswerMatch(trimmedLine)
      correctMatch == orMatch(markedMatch(CheckMark, trimmedLine),
                              markedMatch(CheckMark, line))
      incorrectMatch == orMatch(markedMatch(CrossMark, trimmedLine),
                                markedMatch(CrossMark, line))
      nm == normalMatch(trimmedLine)
  IN IF cam.matched THEN [acc EXCEPT !.correctAnswerLetter = cam.letter]
     ELSE IF isFeedbackLine(trimmedLine)
     THEN [acc EXCEPT !.feedbackMessage = removeBold(trimmedLine),
                      !.isAnswered = TRUE]
     ELSE IF isFooterLine(trimmedLine) THEN acc
     ELSE IF correctMatch.matched
     THEN [acc EXCEPT !.foundOptions = TRUE,
                      !.options = Append(@, Option(correctMatch, "correct"))]
     ELSE IF incorrectMatch.matched
     THEN [acc EXCEPT !.foundOptions = TRUE,
                      !.options = Append(@, Option(incorrectMatch, "incorrect"))]
     ELSE IF /\ nm.matched
             /\ ~startsWith(trimmedLine, <<CheckMark>>)
             /\ ~startsWith(trimmedLine, <<CrossMark>>)
     THEN [acc EXCEPT !.foundOptions = TRUE,
                      !.options = Append(@, Option(nm, "normal"))]
     ELSE IF ~acc.foundOptions /\ trimmedLine # <<>>
     THEN [acc EXCEPT !.questionLines = Append(@, line)]
     ELSE acc

RECURSIVE scanLines(_, _)
scanLines(acc, lines) ==
  IF lines = <<>> THEN acc ELSE scanLines(scanLine(acc, Head(lines)), Tail(lines))

\* what parseQuizQuestion returns for `return null`
NoQuiz ==
  [parsed |-> FALSE, question |-> <<>>, options |-> <<>>, feedback |-> <<>>,
   isAnswered |-> FALSE, correctAnswerLetter |-> ""]

\* variant of optionsComplete that accepts five options as well
optionsAtLeastFour(options) == Len(options) >= 4

\* `if (options.length === 4)`
optionsComplete(options) == Len(options) = 4

\* parseQuizQuestion after its first line, hasOptions being known;
\* `if (!hasOptions || isUser) return null`
parseWith(hasOptions, content, role) ==
  IF ~hasOptions \/ role = USER THEN NoQuiz
  ELSE LET acc == scanLines(ScanInit, split(content))
       IN IF optionsComplete(acc.options)
          THEN [parsed |-> TRUE,
                question |-> join(acc.questionLines),
                options |-> acc.options,
                feedback |-> acc.feedbackMessage,
                isAnswered |-> acc.isAnswered,
                correctAnswerLetter |-> acc.correctAnswerLetter]
          ELSE NoQuiz

parseQuizQuestion(content, role) ==
  parseWith(hasOptionsTest(content), content, role)

-----------------------------------------------------------------------------
(* ChatMessage: component state, click handler, effect and render *)

Null == "null"

NoInstantFeedback ==
  [set |-> FALSE, selectedLetter |-> "", isCorrect |-> FALSE, correctLetter |-> ""]

\* useState(null) twice
InstanceInit == [selectedAnswer |-> Null, instantFeedback |-> NoInstantFeedback]

\* variant of evaluateClick that calls every click correct
evaluateClickAlwaysCorrect(letter, correctAnswer) == correctAnswer # ""

\* `const isCorrect = letter === correctAnswer`
evaluateClick(letter, correctAnswer) == letter = correctAnswer

\* variant of clickAccepted without the test of correctAnswer
clickAcceptedWithoutLetter(st, correctAnswer) == st.selectedAnswer = Null

\* `if (onSendMessage && !selectedAnswer && correctAnswer)`; ChatWindow always
\* passes onSendMessage
clickAccepted(st, correctAnswer) == st.selectedAnswer = Null /\ correctAnswer # ""

\* variant of handleOptionClick that leaves setSelectedAnswer out
handleOptionClickNoSelect(st, letter, correctAnswer) ==
  IF clickAccepted(st, correctAnswer)
  THEN [state |-> [selectedAnswer |-> st.selectedAnswer,
                   instantFeedback |->
                     [set |-> TRUE, selectedLetter |-> letter,
                      isCorrect |-> evaluateClick(letter, correctAnswer),
                      correctLetter |-> correctAnswer]],
        sent |-> <<letter>>]
  ELSE [state |-> st, sent |-> <<>>]

\* handleOptionClick: the new component state and the letters handed to
\* onSendMessage (none or one)
handleOptionClick(st, letter, correctAnswer) ==
  IF clickAccepted(st, correctAnswer)
  THEN [state |-> [selectedAnswer |-> letter,
                   instantFeedback |->
                     [set |-> TRUE, selectedLetter |-> letter,
                      isCorrect |-> evaluateClick(letter, correctAnswer),
                      correctLetter |-> correctAnswer]],
        sent |-> <<letter>>]
  ELSE [state |-> st, sent |-> <<>>]

\* onClick={() => !quizData.isAnswered && !selectedAnswer && handleOptionClick(...)}
onOptionClick(st, quizData, letter) ==
  IF ~quizData.isAnswered /\ st.selectedAnswer = Null
  THEN handleOptionClick(st, letter, quizData.correctAnswerLetter)
  ELSE [state |-> st, sent |-> <<>>]

\* disabled={quizData.isAnswered || selectedAnswer !== null}
optionDisabled(st, quizData) == quizData.isAnswered \/ st.selectedAnswer # Null

\* the dependency of the effect: quizData?.isAnswered
isAnsweredDep(q) ==
  IF ~q.parsed THEN "undefined" ELSE IF q.isAnswered THEN "true" ELSE "false"

\* variant of resetInstantFeedback: the effect does nothing
keepInstantFeedback(st, quizData) == st

\* useEffect(() => { if (quizData?.isAnswered) setInstantFeedback(null) })
resetInstantFeedback(st, quizData) ==
  IF quizData.parsed /\ quizData.isAnswered
  THEN [st EXCEPT !.instantFeedback = NoInstantFeedback]
  ELSE st

\* variant of overlayActive without `!quizData.isAnswered`
overlayWheneverSet(st, quizData) == st.instantFeedback.set

\* `instantFeedback && !quizData.isAnswered`
overlayActive(st, quizData) == st.instantFeedback.set /\ ~quizData.isAnswered

\* variant of buttonStatus that does not reveal the correct option
buttonStatusSelectedOnly(option, st, quizData) ==
  IF overlayActive(st, quizData)
  THEN IF option.letter = st.instantFeedback.selectedLetter
       THEN IF st.instantFeedback.isCorrect THEN "correct" ELSE "incorrect"
       ELSE option.status
  ELSE option.status

buttonStatus(option, st, quizData) ==
  IF overlayActive(st, quizData)
  THEN IF option.letter = st.instantFeedback.selectedLetter
       THEN IF st.instantFeedback.isCorrect THEN "correct" ELSE "incorrect"
       ELSE IF option.letter = st.instantFeedback.correctLetter THEN "correct"
       ELSE option.status
  ELSE option.status

BadgeIf(cond, kind) == IF cond THEN <<kind>> ELSE <<>>

\* the badge spans of one option button, in source order
optionBadges(option, st, quizData) ==
  LET fb == st.instantFeedback
      active == overlayActive(st, quizData)
      status == buttonStatus(option, st, quizData)
  IN BadgeIf(active /\ option.letter = fb.selectedLetter /\ fb.isCorrect, "CORRECT!")
     \o BadgeIf(active /\ option.letter = fb.selectedLetter /\ ~fb.isCorrect, "WRONG")
     \o BadgeIf(active /\ option.letter = fb.correctLetter
                       /\ option.letter # fb.selectedLetter, "CORRECT!")
     \o BadgeIf(status = "correct" /\ quizData.isAnswered, "CORRECT!")
     \o BadgeIf(status = "incorrect" /\ quizData.isAnswered, "WRONG")

\* the text of the instant feedback div
instantFeedbackText(fb) ==
  IF fb.isCorrect THEN <<CheckMark, SP, "Correct", "!">>
  ELSE <<CrossMark, SP, "Incorrect", ".", SP, "The correct answer is", SP,
         fb.correctLetter, ".">>

optionView(option, st, quizData) ==
  [letter |-> option.letter, text |-> option.text,
   status |-> buttonStatus(option, st, quizData),
   badges |-> optionBadges(option, st, quizData),
   disabled |-> optionDisabled(st, quizData)]

\* what the component returns: the quiz card or the plain text div.  The
\* lists instant and feedback hold the text of the div when it is rendered.
Render(safeContent, quizData, st) ==
  IF quizData.parsed
  THEN [isQuiz |-> TRUE,
        text |-> quizData.question,
        options |-> [i \in 1..Len(quizData.options) |->
                       optionView(quizData.options[i], st, quizData)],
        instant |-> IF overlayActive(st, quizData)
                    THEN <<instantFeedbackText(st.instantFeedback)>> ELSE <<>>,
        feedback |-> IF quizData.feedback # <<>>
                     THEN <<quizData.feedback>> ELSE <<>>]
  ELSE [isQuiz |-> FALSE, text |-> safeContent, options |-> <<>>,
        instant |-> <<>>, feedback |-> <<>>]

-----------------------------------------------------------------------------
(* The server's answer evaluation.  The back end is not part of the front   *)
(* end sources; it is modelled from the specification (AnswerEvaluator).    *)

feedbackLine(submitted, correct) ==
  IF submitted = correct THEN <<CheckMark, SP, "Correct", "!">>
  ELSE <<CrossMark, SP, "Incorrect", ".", SP, "The correct answer is", SP,
         correct, ".">>

\* the marker an option line receives: the submitted option its own verdict,
\* the correct option always the check mark, the other options none
markLine(line, submitted, correct) ==
  LET m == normalMatch(trim(line))
  IN IF ~m.matched THEN line
     ELSE IF m.letter = correct THEN <<CheckMark, SP>> \o line
     ELSE IF m.letter = submitted THEN <<CrossMark, SP>> \o line
     ELSE line

\* the body persisted after an answer: option lines marked, the feedback
\* line appended, everything else (the hidden marker too) kept
AnswerEvaluator(content, submitted, correct) ==
  LET lines == split(content)
  IN join([i \in 1..Len(lines) |-> markLine(lines[i], submitted, correct)])
     \o <<NL>> \o feedbackLine(submitted, correct)

-----------------------------------------------------------------------------
(* Message bodies for the parser specification *)

MaxPre == 1

QuestionLine == <<"What is 2+2?">>
optionLine(letter, text) == <<letter, ".", SP, text>>
markerLine(letter) == <<"[CORRECT:", letter, "]">>
FooterLine == <<"Type your answer", SP, "or 'stop' to end">>

\* lines that may precede or follow the option block of a generated body
ExtraLines ==
  { QuestionLine,
    <<>>,
    <<SP, SP, "Pick one", SP>>,
    optionLine("B", "4"),
    <<SP, "C", ".", SP, SP, "5", SP>>,
    <<CheckMark, SP, "B", ".", SP, "4">>,
    <<CrossMark, "A", ".", SP, "3">>,
    <<CheckMark, SP, "A", ".", SP, SP>>,
    markerLine("B"),
    markerLine("E"),
    <<"A", ".", SP, "3", SP, "[CORRECT:", "A", "]">>,
    FooterLine,
    <<"**", CheckMark, SP, "Correct", "!", "**">>,
    <<"See section", SP, "A", ".">>,
    <<SP, SP>>,
    <<"[CORRECT:", "B", "]", SP, CheckMark, SP, "Correct", "!">>,
    optionLine("A", "Type your answer") }

PlainOptions(n) ==
  [i \in 1..n |-> optionLine(LetterOrder[((i - 1) % 4) + 1],
                             <<"3", "4", "5", "6">>[((i - 1) % 4) + 1])]

\* option blocks: none, too few, the four options with and without the
\* hidden marker, with lines between the options, already answered, too many
OptionBlocks ==
  { <<>>,
    PlainOptions(3),
    PlainOptions(4),
    PlainOptions(5),
    PlainOptions(4) \o <<markerLine("A")>>,
    PlainOptions(4) \o <<markerLine("B")>>,
    PlainOptions(4) \o <<markerLine("D"), FooterLine>>,
    PlainOptions(2) \o <<markerLine("C"), <<"Pick one">>>>
      \o <<optionLine("C", "5"), optionLine("D", "6")>>,
    split(AnswerEvaluator(join(PlainOptions(4) \o <<markerLine("B")>>), "A", "B")) }

SeqsUpTo(S, n) == UNION {[1..k -> S] : k \in 0..n}

Bodies ==
  { join(pre \o block \o post) :
      pre \in SeqsUpTo(ExtraLines, MaxPre),
      block \in OptionBlocks,
      post \in SeqsUpTo(ExtraLines, 1) }

-----------------------------------------------------------------------------
VARIABLES
  \* one ChatMessage component on its own (the parser specification)
  pmsg,     \* its message prop: role and content
  pstage,   \* "new": content set, not rendered; "committed": rendered, the
            \* effect not run yet; "rendered"
  pquiz,    \* quizData of the last render
  pinst,    \* selectedAnswer and instantFeedback
  pclicks,  \* the letters of the option buttons clicked so far
  psent,    \* the letters the component handed to onSendMessage
  porig,    \* the body before the server's round trip (<<>>: none yet)
  pprev,    \* quizData of the body before the round trip
  plast,    \* lastIndex that the last call of parseQuizQuestion left in the
            \* regular expression object it used
  pparses,  \* number of renders (calls of parseQuizQuestion) with this body
  \* the chat page (the protocol specification)
  activeChat,  \* Home: the active chat id
  messages,    \* Home: the displayed message list
  isLoading,   \* Home
  inst,        \* the mounted ChatMessage components, by React key
  effects,     \* keys of the components whose effect has yet to run
  isQuizActive,  \* ChatWindow
  windowEffect,  \* the effect of ChatWindow on [messages] has yet to run
  reqs,        \* the sends of handleSendMessage that have not completed
  nsent,       \* number of sends so far
  server,      \* the back end's record of the chat
  forwarded,   \* history: the answer letters sent, with the question they were for
  optimistic,  \* history: the verdicts computed on click, by question and send
  \* Home with its chat list and the upload control
  chats,       \* Home: the ids of the chats in the chat list
  uploading,   \* FileUpload
  uploadError, \* FileUpload: error
  picked,   \* FileUpload: the file of the input element (<<>>: none)
  nops,        \* number of user operations other than sends so far
  done         \* history: the sends that came to an end, with the ids of the
               \* messages they put on display

pvars == <<pmsg, pstage, pquiz, pinst, pclicks, psent, porig, pprev, plast,
           pparses>>
hvars == <<chats, uploading, uploadError, picked, nops, done>>
cvars == <<activeChat, messages, isLoading, inst, effects, isQuizActive,
           windowEffect, reqs, nsent, server, forwarded, optimistic, hvars>>
vars == <<pvars, cvars>>

\* clicks on the buttons of one component (they stay enabled when the
\* question has no hidden letter)
MaxClicks == 2

\* renders of one component with the same body
MaxParses == 2

\* the page with nothing on it
PageIdle ==
  /\ activeChat = Null
  /\ messages = <<>>
  /\ isLoading = FALSE
  /\ inst = <<>>
  /\ effects = {}
  /\ isQuizActive = FALSE
  /\ windowEffect = FALSE
  /\ reqs = {}
  /\ nsent = 0
  /\ server = <<>>
  /\ forwarded = {}
  /\ optimistic = {}
  /\ chats = {}
  /\ uploading = FALSE
  /\ uploadError = Null
  /\ picked = <<>>
  /\ nops = 0
  /\ done = {}

ParseInit ==
  /\ pmsg \in [role : MessageRole, content : Bodies]
  /\ pstage = "new"
  /\ pquiz = NoQuiz
  /\ pinst = InstanceInit
  /\ pclicks = <<>>
  /\ psent = <<>>
  /\ porig = <<>>
  /\ pprev = NoQuiz
  /\ plast = 0
  /\ pparses = 0
  /\ PageIdle

\* one call `parseQuizQuestion(safeContent)` of the component
ParseCall ==
  LET t == regexTest(pmsg.content, newRegExp(plast))
  IN /\ pquiz' = parseWith(t.found, pmsg.content, pmsg.role)
     /\ plast' = t.lastIndex

\* the first render with a body: `const quizData = parseQuizQuestion(safeContent)`
PRender ==
  /\ pstage = "new"
  /\ pstage' = "committed"
  /\ ParseCall
  /\ pparses' = 1
  /\ UNCHANGED <<pmsg, pinst, pclicks, psent, porig, pprev, cvars>>

\* the component renders again with the same body (its state or its parent
\* changed) and calls parseQuizQuestion again; the effect is due again if
\* quizData?.isAnswered has changed
PRerender ==
  /\ pstage = "rendered"
  /\ pparses < MaxParses
  /\ ParseCall
  /\ pparses' = pparses + 1
  /\ pstage' = IF isAnsweredDep(pquiz') # isAnsweredDep(pquiz)
               THEN "committed" ELSE "rendered"
  /\ UNCHANGED <<pmsg, pinst, pclicks, psent, porig, pprev, cvars>>

\* the effect that follows the render (it runs on mount and when
\* quizData?.isAnswered has changed)
PEffect ==
  /\ pstage = "committed"
  /\ pstage' = "rendered"
  /\ pinst' = resetInstantFeedback(pinst, pquiz)
  /\ UNCHANGED <<pmsg, pquiz, pclicks, psent, porig, pprev, plast, pparses,
                 cvars>>

\* a click on an enabled option button of the rendered question
PClick(letter) ==
  /\ pstage = "rendered"
  /\ pquiz.parsed
  /\ \E i \in 1..Len(pquiz.options) : pquiz.options[i].letter = letter
  /\ ~optionDisabled(pinst, pquiz)
  /\ Len(pclicks) < MaxClicks
  /\ LET r == onOptionClick(pinst, pquiz, letter)
     IN /\ pinst' = r.state
        /\ psent' = psent \o r.sent
  /\ pclicks' = Append(pclicks, letter)
  /\ UNCHANGED <<pmsg, pstage, pquiz, porig, pprev, plast, pparses, cvars>>

\* the server scores a letter against the stored question and the reloaded
\* message carries the updated body
PRoundTrip(letter) ==
  /\ pstage = "rendered"
  /\ porig = <<>>
  /\ pmsg.role = ASSISTANT
  /\ pquiz.parsed /\ ~pquiz.isAnswered /\ pquiz.correctAnswerLetter # ""
  /\ porig' = pmsg.content
  /\ pprev' = pquiz
  /\ pmsg' = [pmsg EXCEPT !.content =
                AnswerEvaluator(pmsg.content, letter, pquiz.correctAnswerLetter)]
  /\ pstage' = "new"
  /\ pparses' = 0
  /\ UNCHANGED <<pquiz, pinst, pclicks, psent, plast, cvars>>

ParseNext ==
  \/ PRender
  \/ PRerender
  \/ PEffect
  \/ \E letter \in Letters : PClick(letter)
  \/ \E letter \in Letters : PRoundTrip(letter)

SpecParse == ParseInit /\ [][ParseNext]_vars

\* the text the component puts on the screen
ShownTexts(view) ==
  {view.text} \cup {view.options[i].text : i \in 1..Len(view.options)}
    \cup {view.instant[i] : i \in 1..Len(view.instant)}
    \cup {view.feedback[i] : i \in 1..Len(view.feedback)}

PView == Render(pmsg.content, pquiz, pinst)

-----------------------------------------------------------------------------
(* The back end, modelled from the specification (QuizSessionController,   *)
(* message store): one chat, its stored messages and its quiz state.       *)

ShortQuestion == <<"Question", SP, "1", ":", SP, "What is 2+2?">>
LongQuestion == <<"Which planet of the solar system has the largest mass of all?">>
QuestionTexts == {ShortQuestion, LongQuestion}

\* a generated question body in the QuizEncoding grammar
QuestionBody(text, correct) ==
  join(<<text>> \o PlainOptions(4) \o <<markerLine(correct), FooterLine>>)

QuizCompleteBody == <<"Quiz Complete", "!">>
PlainReplyBody == <<"Hello! Ask me for a quiz.">>
QuizCommand == <<"quiz", SP, "python">>
StopCommand == <<"stop">>

MsgId(n) == <<"msg", n>>
ErrorId(n) == <<"error", n>>

ServerInit ==
  [stored |-> <<>>, state |-> "inactive", qidx |-> 0, correct |-> "",
   scored |-> {}]

IsAnswerLetter(content) == Len(content) = 1 /\ content[1] \in Letters

\* the topic request command: 'quiz ' and a topic, or 'quiz pdf'
IsTopicRequest(content) ==
  Len(content) >= 3 /\ content[1] = "quiz" /\ content[2] = SP

\* POST /messages/send: the server's state after the message, and its reply.
\* text and correct are the generation oracle's choice for a new question;
\* more is its choice between a next question and the end of the quiz.
ServerSend(sv, content, text, correct, more) ==
  LET n == Len(sv.stored)
      user == [id |-> MsgId(n + 1), role |-> USER, content |-> content]
      question == [id |-> MsgId(n + 2), role |-> ASSISTANT,
                   content |-> QuestionBody(text, correct)]
      complete == [id |-> MsgId(n + 2), role |-> ASSISTANT,
                   content |-> QuizCompleteBody]
      plain == [id |-> MsgId(n + 2), role |-> ASSISTANT,
                content |-> PlainReplyBody]
      asking == [sv EXCEPT !.stored = sv.stored \o <<user, question>>,
                           !.state = "awaiting_answer", !.qidx = n + 2,
                           !.correct = correct]
  IN IF IsAnswerLetter(content) /\ sv.state = "awaiting_answer"
     THEN LET marked == [sv EXCEPT
                           !.stored[sv.qidx].content =
                              AnswerEvaluator(@, content[1], sv.correct),
                           !.scored = @ \cup {<<MsgId(sv.qidx), content[1]>>}]
          IN IF more
             THEN [server |-> [marked EXCEPT
                                 !.stored = marked.stored \o <<user, question>>,
                                 !.qidx = n + 2, !.correct = correct],
                   user_message |-> user, bot_message |-> question,
                   is_quiz_answer |-> TRUE]
             ELSE [server |-> [marked EXCEPT
                                 !.stored = marked.stored \o <<user, complete>>,
                                 !.state = "terminated"],
                   user_message |-> user, bot_message |-> complete,
                   is_quiz_answer |-> TRUE]
     ELSE IF content = StopCommand
     THEN [server |-> [sv EXCEPT !.stored = sv.stored \o <<user, complete>>,
                                 !.state = "terminated"],
           user_message |-> user, bot_message |-> complete,
           is_quiz_answer |-> FALSE]
     ELSE IF IsTopicRequest(content)
     THEN [server |-> asking,
           user_message |-> user, bot_message |-> question,
           is_quiz_answer |-> FALSE]
     ELSE [server |-> [sv EXCEPT !.stored = sv.stored \o <<user, plain>>],
           user_message |-> user, bot_message |-> plain,
           is_quiz_answer |-> FALSE]

-----------------------------------------------------------------------------
(* ChatWindow: the React key of a ChatMessage *)

KeyPrefixLength == 50

\* length in UTF-16 code units of the text a piece stands for
pieceLength(p) ==
  CASE p = "[CORRECT:" -> 9
    [] p = "Correct" -> 7
    [] p = "Incorrect" -> 9
    [] p = "The correct answer is" -> 21
    [] p = "Type your answer" -> 16
    [] p = "or 'stop' to end" -> 16
    [] p = "**" -> 2
    [] p = "What is 2+2?" -> 12
    [] p = "Which planet of the solar system has the largest mass of all?" -> 61
    [] p = "Quiz Complete" -> 13
    [] p = "Question" -> 8
    [] p = "Assessment" -> 10
    [] p = "Hello! Ask me for a quiz." -> 25
    [] p = "quiz" -> 4
    [] p = "python" -> 6
    [] p = "stop" -> 4
    [] p = "hello" -> 5
    [] OTHER -> 1

RECURSIVE substringFrom(_, _, _)
substringFrom(s, i, room) ==
  IF i > Len(s) \/ room = 0 THEN [whole |-> <<>>, cut |-> "", cutLength |-> 0]
  ELSE IF pieceLength(s[i]) <= room
  THEN LET rest == substringFrom(s, i + 1, room - pieceLength(s[i]))
       IN [rest EXCEPT !.whole = <<s[i]>> \o @]
  ELSE [whole |-> <<>>, cut |-> s[i], cutLength |-> room]

\* s.substring(0, n): the pieces that fit and the part of the piece cut at n
substring(s, n) == substringFrom(s, 1, n)

\* key={`${message.id}-${index}-${message.content.substring(0, 50)}`}
Key(m, index) == <<m.id, index, substring(m.content, KeyPrefixLength)>>

Keys(msgs) == {Key(msgs[i], i) : i \in 1..Len(msgs)}

\* the message a mounted component displays
MessageOf(msgs, k) == msgs[k[2]]

QuizData(m) == parseQuizQuestion(m.content, m.role)

-----------------------------------------------------------------------------
(* Home and ChatWindow: the chat page *)

\* sends per run
MaxSends == 2

ChatId == "chat-1"

\* what the user types into ChatInput
TypedContents == {QuizCommand, StopCommand, <<"hello">>, <<"A">>, <<"C">>}

\* loadMessages: the FEEDBACK: filter
loadMessagesFilter(chatMessages) ==
  SelectSeq(chatMessages, LAMBDA m : ~startsWith(m.content, <<"FEEDBACK:">>))

\* /[A-D]\.\ .+/.test(content): a letter, a dot, a blank and one more
\* character that is not a line break
quizPatternTest(content) ==
  \E i \in 1..(Len(content) - 3) :
    /\ content[i] \in Letters
    /\ content[i + 1] = "."
    /\ content[i + 2] = SP
    /\ content[i + 3] # NL

hasQuizQuestion(content) ==
  /\ quizPatternTest(content)
  /\ (includes(content, <<"Assessment">>) \/ includes(content, <<"Question">>))

isQuizComplete(content) == includes(content, <<"Quiz Complete">>)

\* variant of detectQuizActive that does not look for 'Quiz Complete'
detectQuizQuestionOnly(prev, msgs) ==
  IF Len(msgs) > 0
  THEN LET lastMessage == msgs[Len(msgs)]
       IN IF lastMessage.role = ASSISTANT
          THEN hasQuizQuestion(lastMessage.content)
          ELSE prev
  ELSE FALSE

\* the effect of ChatWindow on [messages]: the value of isQuizActive after it,
\* prev being the value before
detectQuizActive(prev, msgs) ==
  IF Len(msgs) > 0
  THEN LET lastMessage == msgs[Len(msgs)]
       IN IF lastMessage.role = ASSISTANT
          THEN hasQuizQuestion(lastMessage.content)
                 /\ ~isQuizComplete(lastMessage.content)
          ELSE prev
  ELSE FALSE

\* a ChatMessage right after it mounted and rendered message m
Mounted(m) == [state |-> InstanceInit, quizData |-> QuizData(m)]

\* the chat histories a page starts from: a new chat, or a chat whose quiz
\* was started with the quiz command
StartedChats ==
  {ServerInit} \cup
  {ServerSend(ServerInit, QuizCommand, text, correct, TRUE).server :
     text \in QuestionTexts, correct \in Letters}

\* the page once the history of the active chat has loaded and rendered
Init ==
  /\ activeChat = ChatId
  /\ server \in StartedChats
  /\ messages = loadMessagesFilter(server.stored)
  /\ inst = [k \in Keys(messages) |-> Mounted(MessageOf(messages, k))]
  /\ isLoading = FALSE
  /\ effects = {}
  /\ isQuizActive = detectQuizActive(FALSE, messages)
  /\ windowEffect = FALSE
  /\ reqs = {}
  /\ nsent = 0
  /\ forwarded = {}
  /\ optimistic = {}
  /\ chats = {ChatId}
  /\ uploading = FALSE
  /\ uploadError = Null
  /\ picked = <<>>
  /\ nops = 0
  /\ done = {}
  /\ pmsg = [role |-> USER, content |-> <<>>]
  /\ pstage = "rendered"
  /\ pquiz = NoQuiz
  /\ pinst = InstanceInit
  /\ pclicks = <<>>
  /\ psent = <<>>
  /\ porig = <<>>
  /\ pprev = NoQuiz
  /\ plast = 0
  /\ pparses = 0

\* setMessages(newMessages) and the render it causes: a component whose key
\* is still in the list keeps its state, a new key mounts a new component;
\* every component parses its message again; its effect is due on mount and
\* when the dependency has changed; the effect of ChatWindow is due
SetMessages(newMessages) ==
  LET new == [k \in Keys(newMessages) |->
                LET q == QuizData(MessageOf(newMessages, k))
                IN IF k \in DOMAIN inst
                   THEN [state |-> inst[k].state, quizData |-> q]
                   ELSE [state |-> InstanceInit, quizData |-> q]]
  IN /\ messages' = newMessages
     /\ inst' = new
     /\ effects' = {k \in DOMAIN new :
                      \/ k \notin DOMAIN inst
                      \/ isAnsweredDep(inst[k].quizData)
                           # isAnsweredDep(new[k].quizData)}
     /\ windowEffect' = TRUE
     /\ UNCHANGED isQuizActive

\* the effects of the last render have run
EffectsDone == effects = {} /\ ~windowEffect

\* the questions on display that have no answer yet, by position
Unanswered ==
  {k[2] : k \in {c \in DOMAIN inst :
                   inst[c].quizData.parsed /\ ~inst[c].quizData.isAnswered}}

\* history: an answer letter goes out for the questions with the ids qids
NoteForwarded(content, qids) ==
  forwarded' = forwarded \cup
    (IF IsAnswerLetter(content)
     THEN {[qid |-> q, rid |-> nsent + 1] : q \in qids}
     ELSE {})

\* handleSendMessage up to its first await: setIsLoading(true) and the POST;
\* the request keeps the `messages` and `activeChat` of the render it was
\* called from
handleSendMessage(content) ==
  /\ activeChat # Null
  /\ nsent < MaxSends
  /\ isLoading' = TRUE
  /\ nsent' = nsent + 1
  /\ reqs' = reqs \cup
       {[rid |-> nsent + 1, chat_id |-> activeChat, content |-> content,
         messages |-> messages, phase |-> "sent", payload |-> <<>>]}

\* ChatInput.handleSend: the input is disabled while isLoading
SendTyped ==
  /\ EffectsDone
  /\ ~isLoading
  /\ LET live == IF Unanswered = {} THEN {}
                 ELSE {messages[MaxOf(Unanswered)].id}
     IN \E content \in TypedContents :
          /\ handleSendMessage(content)
          /\ NoteForwarded(content, live)
  /\ UNCHANGED <<activeChat, messages, inst, effects, isQuizActive, windowEffect,
                 server, optimistic, pvars, hvars>>

\* the STOP QUIZ button: shown while isQuizActive, disabled while isLoading;
\* handleStopQuiz
ClickStop ==
  /\ EffectsDone
  /\ isQuizActive
  /\ ~isLoading
  /\ handleSendMessage(StopCommand)
  /\ UNCHANGED <<activeChat, messages, inst, effects, isQuizActive, windowEffect,
                 server, forwarded, optimistic, pvars, hvars>>

\* a click on an enabled option button of the component with key k
ClickOption(k) ==
  /\ EffectsDone
  /\ inst[k].quizData.parsed
  /\ ~optionDisabled(inst[k].state, inst[k].quizData)
  /\ \E i \in 1..4 :
       LET letter == inst[k].quizData.options[i].letter
           r == onOptionClick(inst[k].state, inst[k].quizData, letter)
       IN /\ inst' = [inst EXCEPT ![k].state = r.state]
          /\ IF r.sent # <<>>
             THEN /\ handleSendMessage(r.sent)
                  /\ NoteForwarded(r.sent, {k[1]})
                  /\ optimistic' = optimistic \cup
                       {[qid |-> k[1], letter |-> letter,
                         isCorrect |-> r.state.instantFeedback.isCorrect,
                         rid |-> nsent + 1]}
             ELSE UNCHANGED <<isLoading, nsent, reqs, forwarded, optimistic>>
  /\ UNCHANGED <<activeChat, messages, effects, isQuizActive, windowEffect,
                 server, pvars, hvars>>

\* the effects of the last render run: those of the ChatMessage components
\* and the one of ChatWindow
FlushEffects ==
  /\ ~EffectsDone
  /\ inst' = [k \in DOMAIN inst |->
                IF k \in effects
                THEN [inst[k] EXCEPT
                        !.state = resetInstantFeedback(@, inst[k].quizData)]
                ELSE inst[k]]
  /\ effects' = {}
  /\ isQuizActive' = IF windowEffect THEN detectQuizActive(isQuizActive, messages)
                     ELSE isQuizActive
  /\ windowEffect' = FALSE
  /\ UNCHANGED <<activeChat, messages, isLoading, reqs, nsent, server,
                 forwarded, optimistic, pvars, hvars>>

Advance(r, phase, payload) ==
  reqs' = (reqs \ {r}) \cup {[r EXCEPT !.phase = phase, !.payload = payload]}

\* variant of isFeedback that does not look at is_quiz_answer
isFeedbackByContent(res) == startsWith(res.bot_message.content, <<"FEEDBACK:">>)

\* `response.bot_message.content.startsWith('FEEDBACK:') || response.is_quiz_answer`
isFeedback(res) ==
  startsWith(res.bot_message.content, <<"FEEDBACK:">>) \/ res.is_quiz_answer

\* the questions the oracle generates after the one a chat starts with
FollowUpQuestions == {<<ShortQuestion, "C">>}

\* the server handles the POST of request r and the reply reaches
\* handleSendMessage, which for a quiz answer goes on to
\* `await loadMessages(activeChat)` (the GET is on its way) and otherwise
\* waits to append the pair
ServerReply(r) ==
  /\ r.phase = "sent"
  /\ \E c \in FollowUpQuestions, more \in BOOLEAN :
       LET res == ServerSend(server, r.content, c[1], c[2], more)
       IN /\ server' = res.server
          /\ Advance(r, IF isFeedback(res) THEN "reloading" ELSE "response",
                     <<res.user_message, res.bot_message>>)
  /\ UNCHANGED <<activeChat, messages, isLoading, inst, effects, isQuizActive,
                 windowEffect, nsent, forwarded, optimistic, pvars, hvars>>

\* handleSendMessage after `await apiService.sendMessage`, normal flow:
\* setMessages([...messages, sanitizedUserMsg, sanitizedBotMsg])
ResponseArrives(r) ==
  /\ EffectsDone
  /\ r.phase = "response"
  /\ SetMessages(r.messages \o r.payload)
  /\ Advance(r, "loadChats", <<>>)
  /\ UNCHANGED <<activeChat, isLoading, nsent, server, forwarded, optimistic, pvars, hvars>>

\* the server handles GET /messages/chat/{id}: the chronological list
ServerList(r) ==
  /\ r.phase = "reloading"
  /\ Advance(r, "reloaded", server.stored)
  /\ UNCHANGED <<activeChat, messages, isLoading, inst, effects, isQuizActive,
                 windowEffect, nsent, server, forwarded, optimistic, pvars, hvars>>

\* loadMessages: setMessages(sanitized)
ReloadArrives(r) ==
  /\ EffectsDone
  /\ r.phase = "reloaded"
  /\ SetMessages(loadMessagesFilter(r.payload))
  /\ Advance(r, "loadChats", <<>>)
  /\ UNCHANGED <<activeChat, isLoading, nsent, server, forwarded, optimistic, pvars, hvars>>

\* loadMessages: the GET fails, the error is logged and nothing else happens
ReloadFails(r) ==
  /\ EffectsDone
  /\ r.phase = "reloading"
  /\ Advance(r, "loadChats", <<>>)
  /\ UNCHANGED <<activeChat, messages, isLoading, inst, effects, isQuizActive,
                 windowEffect, nsent, server, forwarded, optimistic, pvars, hvars>>

\* handleSendMessage: `await loadChats()` is over, finally setIsLoading(false)
SendCompletes(r) ==
  /\ EffectsDone
  /\ r.phase = "loadChats"
  /\ reqs' = reqs \ {r}
  /\ isLoading' = FALSE
  /\ UNCHANGED <<activeChat, messages, inst, effects, isQuizActive,
                 windowEffect, nsent, server, forwarded, optimistic, pvars, hvars>>

\* the POST fails (no connection, an error status): catch appends the error
\* message to the list the handler was called with, finally
\* setIsLoading(false)
SendFails(r) ==
  /\ EffectsDone
  /\ r.phase = "sent"
  /\ SetMessages(Append(r.messages,
       [id |-> ErrorId(r.rid), role |-> ASSISTANT,
        content |-> <<"Error:", SP, "Network Error">>]))
  /\ reqs' = reqs \ {r}
  /\ isLoading' = FALSE
  /\ UNCHANGED <<activeChat, nsent, server, forwarded, optimistic, pvars, hvars>>

Next ==
  \/ SendTyped
  \/ ClickStop
  \/ \E k \in DOMAIN inst : ClickOption(k)
  \/ FlushEffects
  \/ \E r \in reqs : ServerReply(r)
  \/ \E r \in reqs : ResponseArrives(r)
  \/ \E r \in reqs : ServerList(r)
  \/ \E r \in reqs : ReloadArrives(r)
  \/ \E r \in reqs : ReloadFails(r)
  \/ \E r \in reqs : SendCompletes(r)
  \/ \E r \in reqs : SendFails(r)

Spec == Init /\ [][Next]_vars

-----------------------------------------------------------------------------
(* ChatWindow on its own: Home hands it one message list after the other *)

\* messages in the list of a ChatWindow
MaxListLen == 2

\* bodies: questions with and without the word Question, an answered
\* question, termination messages (one of them quoting a question), other text
WindowBodies ==
  { QuestionBody(ShortQuestion, "B"),
    QuestionBody(LongQuestion, "B"),
    AnswerEvaluator(QuestionBody(ShortQuestion, "B"), "A", "B"),
    QuizCompleteBody,
    QuizCompleteBody \o <<NL>> \o QuestionBody(ShortQuestion, "B"),
    <<"Assessment", SP, "A", ".", SP, "done">>,
    PlainReplyBody,
    <<"A">> }

WindowInit ==
  /\ PageIdle
  /\ pmsg = [role |-> USER, content |-> <<>>]
  /\ pstage = "rendered"
  /\ pquiz = NoQuiz
  /\ pinst = InstanceInit
  /\ pclicks = <<>>
  /\ psent = <<>>
  /\ porig = <<>>
  /\ pprev = NoQuiz
  /\ plast = 0
  /\ pparses = 0

\* the messages prop gets one more message
WindowAppend ==
  /\ EffectsDone
  /\ Len(messages) < MaxListLen
  /\ \E role \in MessageRole, content \in WindowBodies :
       SetMessages(Append(messages, [id |-> MsgId(Len(messages) + 1),
                                     role |-> role, content |-> content]))
  /\ UNCHANGED <<activeChat, isLoading, reqs, nsent, server, forwarded,
                 optimistic, pvars, hvars>>

\* the messages prop becomes the empty list (setMessages([]))
WindowClear ==
  /\ EffectsDone
  /\ messages # <<>>
  /\ SetMessages(<<>>)
  /\ UNCHANGED <<activeChat, isLoading, reqs, nsent, server, forwarded,
                 optimistic, pvars, hvars>>

WindowNext ==
  \/ WindowAppend
  \/ WindowClear
  \/ FlushEffects

SpecWindow == WindowInit /\ [][WindowNext]_vars

-----------------------------------------------------------------------------
(* Home with its chat list, the sends and the upload control.  The         *)
(* ChatMessage components are left out here: the specification follows the *)
(* state of Home and of FileUpload.  The back end keeps one record per     *)
(* chat and is modelled from the specification.                            *)

\* chat ids the back end hands out, the two chats of the start included
MaxChats == 3

\* user operations other than sends per run (select, new, delete, upload)
MaxOps == 1

ChatName(n) ==
  CASE n = 1 -> "chat-1" [] n = 2 -> "chat-2" [] n = 3 -> "chat-3"
    [] n = 4 -> "chat-4" [] OTHER -> "chat-5"

ChatPool == {ChatName(n) : n \in 1..MaxChats}

\* the chats the back end has and has not deleted
Existing(sv) == {c \in DOMAIN sv : sv[c].state # "deleted"}

\* a message as the back end returns it for chat c (Message.chat_id)
InChat(c, m) ==
  [id |-> m.id, chat_id |-> c, role |-> m.role, content |-> m.content]

ListOf(c, stored) == [i \in 1..Len(stored) |-> InChat(c, stored[i])]

QuizPdfCommand == <<"quiz", SP, "pdf">>
FeedbackText == <<"FEEDBACK:", SP, "hello">>

\* what the user types into ChatInput
HomeTyped == {<<"hello">>, <<"A">>, FeedbackText}

\* the files the user picks
PdfName == <<"notes", ".pdf">>
Files == {PdfName, <<"notes", ".PDF">>, <<"notes", ".pdf", ".txt">>}

\* s.endsWith(pat)
endsWith(s, pat) ==
  Len(s) >= Len(pat) /\ SubSeq(s, Len(s) - Len(pat) + 1, Len(s)) = pat

\* variant of isPdfName that takes every file
anyFileName(name) == TRUE

\* file.name.endsWith('.pdf')
isPdfName(name) == endsWith(name, <<".pdf">>)

PleaseUploadPdf == "Please upload a PDF file"
FailedToUpload == "Failed to upload PDF. Please try again."

\* what a failed POST gives the catch block: error.response.data.detail
\* (a list of validation errors, a string, an object or nothing) and
\* error.message
NoDetail == [kind |-> "none", items |-> <<>>, text |-> <<>>]
SendErrors ==
  { [detail |-> NoDetail, message |-> <<"Network Error">>],
    [detail |-> NoDetail, message |-> <<>>],
    [detail |-> [kind |-> "string", items |-> <<>>,
                 text |-> <<"Chat not found">>],
     message |-> <<"Request failed with status code 404">>],
    [detail |-> [kind |-> "array",
                 items |-> <<[loc |-> <<"body", "content">>,
                              msg |-> <<"field required">>],
                             [loc |-> <<>>, msg |-> <<>>]>>,
                 text |-> <<>>],
     message |-> <<"Request failed with status code 422">>],
    [detail |-> [kind |-> "object", items |-> <<>>, text |-> <<"code">>],
     message |-> <<"Request failed with status code 500">>] }

RECURSIVE joinWith(_, _)
\* parts.join(sep)
joinWith(parts, sep) ==
  IF parts = <<>> THEN <<>>
  ELSE IF Len(parts) = 1 THEN parts[1]
  ELSE parts[1] \o sep \o joinWith(Tail(parts), sep)

\* `${e.loc ? e.loc.join('.') : 'field'}: ${e.msg || 'validation error'}`;
\* an item without loc has loc <<>> here, one without msg has msg <<>>
validationText(e) ==
  (IF e.loc # <<>>
   THEN joinWith([i \in 1..Len(e.loc) |-> <<e.loc[i]>>], <<".">>)
   ELSE <<"field">>)
    \o <<":", SP>>
    \o (IF e.msg # <<>> THEN e.msg ELSE <<"validation error">>)

\* JSON.stringify of an object detail with one key
jsonStringify(key) == <<"{", "\"">> \o key \o <<"\"", ":", "true", "}">>

\* the text the catch block of handleSendMessage computes
errorText(error) ==
  IF error.detail.kind = "array"
  THEN joinWith([i \in 1..Len(error.detail.items) |->
                   validationText(error.detail.items[i])], <<";", SP>>)
  ELSE IF error.detail.kind = "string" THEN error.detail.text
  ELSE IF error.detail.kind = "object" THEN jsonStringify(error.detail.text)
  ELSE IF error.message # <<>> THEN error.message
  ELSE <<"Unknown error occurred">>

\* the message the catch block appends
errorMsg(r, error) ==
  [id |-> ErrorId(r.rid), chat_id |-> r.activeChat, role |-> ASSISTANT,
   content |-> <<"Error:", SP>> \o errorText(error)]

\* the page after login, with two chats in the list (one with a quiz that
\* was started, one without messages), and no chat or one of them active and
\* loaded
HomeInit ==
  /\ server = (ChatName(1) :>
                 ServerSend(ServerInit, QuizCommand, ShortQuestion, "B", TRUE).server)
              @@ (ChatName(2) :> ServerInit)
  /\ chats = {ChatName(1), ChatName(2)}
  /\ activeChat \in {Null, ChatName(1), ChatName(2)}
  /\ messages = IF activeChat = Null THEN <<>>
                ELSE ListOf(activeChat, loadMessagesFilter(server[activeChat].stored))
  /\ isLoading = FALSE
  /\ inst = <<>>
  /\ effects = {}
  /\ isQuizActive = FALSE
  /\ windowEffect = FALSE
  /\ reqs = {}
  /\ nsent = 0
  /\ forwarded = {}
  /\ optimistic = {}
  /\ uploading = FALSE
  /\ uploadError = Null
  /\ picked = <<>>
  /\ nops = 0
  /\ done = {}
  /\ pmsg = [role |-> USER, content |-> <<>>]
  /\ pstage = "rendered"
  /\ pquiz = NoQuiz
  /\ pinst = InstanceInit
  /\ pclicks = <<>>
  /\ psent = <<>>
  /\ porig = <<>>
  /\ pprev = NoQuiz
  /\ plast = 0
  /\ pparses = 0

\* a request of Home or FileUpload that has not come to its end; it keeps
\* the activeChat, messages and chats of the render its handler was made in
Request(kind, chat, content, ac, msgs, cs) ==
  [rid |-> nsent + nops + 1, kind |-> kind, chat_id |-> chat,
   call |-> IF kind = "send" THEN "handleSendMessage" ELSE kind,
   content |-> content, activeChat |-> ac, messages |-> msgs, chats |-> cs,
   phase |-> "sent", payload |-> <<>>, reply |-> <<>>]

\* the other sends of the chat of r that are in flight
Overlapping(r) ==
  {q.rid : q \in {q \in reqs \ {r} : q.kind = "send" /\ q.chat_id = r.chat_id}}

\* handleNewChat up to its await: POST /chats
NewChatRequest(cs, content) ==
  Request("create", Null, content, Null, <<>>, cs)

\* variant of SendRequest that posts the content to the chat 'default'
\* when no chat is active
SendRequestWithoutChat(content, ac, msgs, cs) ==
  Request("send", IF ac = Null THEN "default" ELSE ac, content,
          IF ac = Null THEN "default" ELSE ac, msgs, cs)

\* handleSendMessage up to its first await, in a render with the active chat
\* ac, the list msgs and the chat list cs: without an active chat it goes
\* into handleNewChat and returns, else it posts the content
SendRequest(content, ac, msgs, cs) ==
  IF ac = Null
  THEN [NewChatRequest(cs, content) EXCEPT !.call = "handleSendMessage"]
  ELSE Request("send", ac, content, ac, msgs, cs)

\* the request q starts (and the requests in gone are over); nsent counts
\* the calls of handleSendMessage, which sets isLoading before its POST
Issue(q, gone) ==
  /\ reqs' = (reqs \ gone) \cup {q}
  /\ isLoading' = IF q.kind = "send" THEN TRUE ELSE isLoading
  /\ IF q.call = "handleSendMessage"
     THEN nsent < MaxSends /\ nsent' = nsent + 1 /\ UNCHANGED nops
     ELSE nops < MaxOps /\ nops' = nops + 1 /\ UNCHANGED nsent

HomeFrame == <<inst, effects, isQuizActive, windowEffect, forwarded,
               optimistic, pvars>>

\* ChatInput.handleSend: the input is disabled while isLoading
HomeSendTyped ==
  /\ ~isLoading
  /\ \E content \in HomeTyped :
       Issue(SendRequest(content, activeChat, messages, chats), {})
  /\ UNCHANGED <<activeChat, messages, chats, server, uploading, uploadError,
                 done, picked, HomeFrame>>

\* handleTopicClick: the topic buttons are on display while the list is
\* empty; isLoading does not disable them
ClickTopic ==
  /\ messages = <<>>
  /\ Issue(SendRequest(QuizCommand, activeChat, messages, chats), {})
  /\ UNCHANGED <<activeChat, messages, chats, server, uploading, uploadError,
                 done, picked, HomeFrame>>

\* handleSelectChat, and the effect on [activeChat]: loadMessages(activeChat)
handleSelectChat(c) ==
  /\ c \in chats
  /\ c # activeChat
  /\ activeChat' = c
  /\ Issue(Request("load", c, <<>>, c, <<>>, chats), {})
  /\ UNCHANGED <<messages, chats, server, uploading, uploadError, done,
                 picked, HomeFrame>>

\* the New Chat button: handleNewChat
ClickNewChat ==
  /\ Issue(NewChatRequest(chats, <<>>), {})
  /\ UNCHANGED <<activeChat, messages, chats, server, uploading, uploadError,
                 done, picked, HomeFrame>>

\* handleDeleteChat up to its await: DELETE /chats/{id}
ClickDeleteChat(c) ==
  /\ c \in chats
  /\ Issue(Request("delete", c, <<>>, activeChat, <<>>, chats), {})
  /\ UNCHANGED <<activeChat, messages, chats, server, uploading, uploadError,
                 done, picked, HomeFrame>>

\* the input's onChange, handleFileChange up to its await: a file that is no
\* PDF by its name gives an error, a PDF is posted to the upload endpoint
handleFileChange(name) ==
  /\ ~uploading
  /\ name # picked
  /\ picked' = name
  /\ nops < MaxOps
  /\ IF ~isPdfName(name)
     THEN /\ uploadError' = PleaseUploadPdf
          /\ nops' = nops + 1
          /\ UNCHANGED <<uploading, reqs, nsent, isLoading>>
     ELSE /\ uploading' = TRUE
          /\ uploadError' = Null
          /\ Issue(Request("upload", IF activeChat = Null THEN "default"
                                     ELSE activeChat,
                           name, activeChat, messages, chats), {})
  /\ UNCHANGED <<activeChat, messages, chats, server, done, HomeFrame>>

\* the id the back end gives the next chat
NewChatId(sv) == ChatName(Cardinality(DOMAIN sv) + 1)

\* handleNewChat after its await: setChats, setActiveChat(newChat.id),
\* setMessages([]), and the effect on [activeChat]: loadMessages
CreateArrives(r) ==
  /\ r.kind = "create"
  /\ Cardinality(DOMAIN server) < MaxChats
  /\ LET id == NewChatId(server)
     IN /\ server' = server @@ (id :> ServerInit)
        /\ chats' = {id} \cup r.chats
        /\ activeChat' = id
        /\ messages' = <<>>
        /\ reqs' = (reqs \ {r}) \cup
             {[r EXCEPT !.kind = "load", !.chat_id = id, !.activeChat = id]}
  /\ UNCHANGED <<isLoading, nsent, nops, uploading, uploadError, done,
                 picked, HomeFrame>>

\* a request fails and its handler only logs the error: createChat,
\* deleteChat, the getChatMessages of a chat selection
FailsSilently(r) ==
  /\ \/ r.kind \in {"create", "delete"}
     \/ r.kind = "load" /\ r.phase = "sent"
  /\ reqs' = reqs \ {r}
  /\ UNCHANGED <<activeChat, messages, chats, server, isLoading, nsent, nops,
                 uploading, uploadError, done, picked, HomeFrame>>

\* handleDeleteChat after its await: the chat leaves the list; if it was the
\* active chat when the handler was called, no chat is active any more
DeleteArrives(r) ==
  /\ r.kind = "delete"
  /\ r.chat_id \in Existing(server)
  /\ server' = [server EXCEPT ![r.chat_id].state = "deleted"]
  /\ chats' = r.chats \ {r.chat_id}
  /\ IF r.activeChat = r.chat_id
     THEN activeChat' = Null /\ messages' = <<>>
     ELSE UNCHANGED <<activeChat, messages>>
  /\ reqs' = reqs \ {r}
  /\ UNCHANGED <<isLoading, nsent, nops, uploading, uploadError, done,
                 picked, HomeFrame>>

\* the back end serves GET /messages/chat/{id}
ListServed(r) ==
  /\ \/ r.kind = "load" /\ r.phase = "sent"
     \/ r.kind = "send" /\ r.phase = "reloading"
  /\ r.chat_id \in Existing(server)
  /\ reqs' = (reqs \ {r}) \cup
       {[r EXCEPT !.phase = "reloaded",
                  !.payload = ListOf(r.chat_id, server[r.chat_id].stored)]}
  /\ UNCHANGED <<activeChat, messages, chats, server, isLoading, nsent, nops,
                 uploading, uploadError, done, picked, HomeFrame>>

\* loadMessages after its await: setMessages(sanitized); a send goes on to
\* loadChats
ListArrives(r) ==
  /\ r.phase = "reloaded"
  /\ messages' = loadMessagesFilter(r.payload)
  /\ IF r.kind = "send"
     THEN /\ reqs' = (reqs \ {r}) \cup
               {[r EXCEPT !.phase = "loadChats", !.payload = <<>>]}
          /\ done' = done \cup
               {[rid |-> r.rid, chat |-> r.chat_id,
                 ids |-> {r.reply[1].id, r.reply[2].id}, error |-> <<>>,
                 with |-> Overlapping(r)]}
     ELSE /\ reqs' = reqs \ {r}
          /\ UNCHANGED done
  /\ UNCHANGED <<activeChat, chats, server, isLoading, nsent, nops, uploading,
                 uploadError, picked, HomeFrame>>

\* the reload of a send fails: loadMessages logs the error
HomeReloadFails(r) ==
  /\ r.kind = "send" /\ r.phase = "reloading"
  /\ reqs' = (reqs \ {r}) \cup {[r EXCEPT !.phase = "loadChats"]}
  /\ done' = done \cup
       {[rid |-> r.rid, chat |-> r.chat_id, ids |-> {}, error |-> <<>>,
         with |-> Overlapping(r)]}
  /\ UNCHANGED <<activeChat, messages, chats, server, isLoading, nsent, nops,
                 uploading, uploadError, picked, HomeFrame>>

\* the back end handles the POST of a send
HomeServerReply(r) ==
  /\ r.kind = "send" /\ r.phase = "sent"
  /\ r.chat_id \in Existing(server)
  /\ \E more \in BOOLEAN :
       LET res == ServerSend(server[r.chat_id], r.content, ShortQuestion, "B",
                             more)
       IN /\ server' = [server EXCEPT ![r.chat_id] = res.server]
          /\ reqs' = (reqs \ {r}) \cup
               {[r EXCEPT !.phase = IF isFeedback(res) THEN "reloading"
                                    ELSE "response",
                          !.reply = <<InChat(r.chat_id, res.user_message),
                                      InChat(r.chat_id, res.bot_message)>>]}
  /\ UNCHANGED <<activeChat, messages, chats, isLoading, nsent, nops,
                 uploading, uploadError, done, picked, HomeFrame>>

\* handleSendMessage after its await, normal flow:
\* setMessages([...messages, sanitizedUserMsg, sanitizedBotMsg])
HomeResponseArrives(r) ==
  /\ r.kind = "send" /\ r.phase = "response"
  /\ messages' = r.messages \o r.reply
  /\ reqs' = (reqs \ {r}) \cup {[r EXCEPT !.phase = "loadChats"]}
  /\ done' = done \cup
       {[rid |-> r.rid, chat |-> r.chat_id,
         ids |-> {r.reply[1].id, r.reply[2].id}, error |-> <<>>,
         with |-> Overlapping(r)]}
  /\ UNCHANGED <<activeChat, chats, server, isLoading, nsent, nops, uploading,
                 uploadError, picked, HomeFrame>>

\* handleSendMessage: `await loadChats()` (setChats(userChats), or an error
\* that is logged), then finally setIsLoading(false)
HomeSendCompletes(r) ==
  /\ r.kind = "send" /\ r.phase = "loadChats"
  /\ \E ok \in BOOLEAN :
       chats' = IF ok THEN Existing(server) ELSE chats
  /\ isLoading' = FALSE
  /\ reqs' = reqs \ {r}
  /\ UNCHANGED <<activeChat, messages, server, nsent, nops, uploading,
                 uploadError, done, picked, HomeFrame>>

\* the POST of a send fails: catch appends the error message to the list of
\* the render the handler was called in, finally setIsLoading(false)
HomeSendFails(r) ==
  /\ r.kind = "send" /\ r.phase = "sent"
  /\ \E error \in SendErrors :
       /\ messages' = Append(r.messages, errorMsg(r, error))
       /\ done' = done \cup
            {[rid |-> r.rid, chat |-> r.chat_id, ids |-> {ErrorId(r.rid)},
              error |-> <<error>>, with |-> Overlapping(r)]}
  /\ isLoading' = FALSE
  /\ reqs' = reqs \ {r}
  /\ UNCHANGED <<activeChat, chats, server, nsent, nops, uploading,
                 uploadError, picked, HomeFrame>>

\* the upload endpoint answers: 200, an error status, or no answer at all
UploadOutcomes == {"ok", "error status", "no connection"}

UploadServed(r) ==
  /\ r.kind = "upload" /\ r.phase = "sent"
  /\ \E outcome \in UploadOutcomes :
       reqs' = (reqs \ {r}) \cup {[r EXCEPT !.phase = outcome]}
  /\ UNCHANGED <<activeChat, messages, chats, server, isLoading, nsent, nops,
                 uploading, uploadError, done, picked, HomeFrame>>

\* handleFileChange after its await, response.ok: onUploadSuccess, that is
\* handleUploadSuccess and the handleSendMessage('quiz pdf') of the render the
\* file was picked in; the input is reset; finally setUploading(false)
UploadSucceeds(r) ==
  /\ r.kind = "upload" /\ r.phase = "ok"
  /\ Issue(SendRequest(QuizPdfCommand, r.activeChat, r.messages, r.chats), {r})
  /\ picked' = <<>>
  /\ uploading' = FALSE
  /\ UNCHANGED <<activeChat, messages, chats, server, uploadError, done,
                 HomeFrame>>

\* handleFileChange after its await, no response.ok or a rejected fetch:
\* catch sets the error; finally setUploading(false)
UploadFails(r) ==
  /\ r.kind = "upload" /\ r.phase \in {"error status", "no connection"}
  /\ uploadError' = FailedToUpload
  /\ uploading' = FALSE
  /\ reqs' = reqs \ {r}
  /\ UNCHANGED <<activeChat, messages, chats, server, isLoading, nsent, nops,
                 done, picked, HomeFrame>>

HomeNext ==
  \/ HomeSendTyped
  \/ ClickTopic
  \/ \E c \in ChatPool : handleSelectChat(c)
  \/ ClickNewChat
  \/ \E c \in ChatPool : ClickDeleteChat(c)
  \/ \E name \in Files : handleFileChange(name)
  \/ \E r \in reqs : CreateArrives(r)
  \/ \E r \in reqs : FailsSilently(r)
  \/ \E r \in reqs : DeleteArrives(r)
  \/ \E r \in reqs : ListServed(r)
  \/ \E r \in reqs : ListArrives(r)
  \/ \E r \in reqs : HomeReloadFails(r)
  \/ \E r \in reqs : HomeServerReply(r)
  \/ \E r \in reqs : HomeResponseArrives(r)
  \/ \E r \in reqs : HomeSendCompletes(r)
  \/ \E r \in reqs : HomeSendFails(r)
  \/ \E r \in reqs : UploadServed(r)
  \/ \E r \in reqs : UploadSucceeds(r)
  \/ \E r \in reqs : UploadFails(r)

SpecChats == HomeInit /\ [][HomeNext]_vars

-----------------------------------------------------------------------------
(* Claims about one ChatMessage and its parser (SpecParse) *)

HasHiddenMarker(text) == includes(text, <<"[CORRECT:">>)

\* C1: whatever the body and the role of a message, the text ChatMessage
\* shows (question, option texts, feedback lines, or the raw body of a message
\* that is not a quiz) never contains '[CORRECT:'.
C1_HiddenMarkerNeverShown ==
  pstage # "new" => \A text \in ShownTexts(PView) : ~HasHiddenMarker(text)

\* C2 as stated: once an option was clicked, the first click has taken
\* effect: selectedAnswer is its letter and onSendMessage got that letter once.
C2_FirstClickTakesEffect ==
  pclicks # <<>> => (pinst.selectedAnswer = pclicks[1] /\ psent = <<pclicks[1]>>)

\* C2, amended: onSendMessage is called at most once; on a question whose
\* hidden letter was parsed the first click takes effect (selectedAnswer,
\* instantFeedback, one onSendMessage) and selectedAnswer stays what it set;
\* on a question without a hidden letter no click takes effect.
C2_AtMostOneClickTakesEffect ==
  /\ Len(psent) <= 1
  /\ (pclicks # <<>> /\ pquiz.correctAnswerLetter # "") =>
       (pinst.selectedAnswer = pclicks[1] /\ psent = <<pclicks[1]>>)
  /\ (pclicks # <<>> /\ pquiz.correctAnswerLetter = "") =>
       (pinst.selectedAnswer = Null /\ psent = <<>>)
  /\ pinst.selectedAnswer # Null =>
       (pclicks # <<>> /\ pinst.selectedAnswer = pclicks[1])
  /\ (pinst.selectedAnswer # Null /\ ~pquiz.isAnswered) =>
       (pinst.instantFeedback.set
          /\ pinst.instantFeedback.selectedLetter = pinst.selectedAnswer)

\* a click took effect and the answered question came back from the server
C2_Witness ==
  /\ pstage = "rendered" /\ pquiz.isAnswered
  /\ Len(pclicks) = 1 /\ pinst.selectedAnswer = pclicks[1] /\ psent = pclicks

CollectedOptions(content) == scanLines(ScanInit, split(content)).options

\* C8: a message is rendered as a quiz exactly if four option lines were
\* collected from its body (a user message is never scanned); otherwise it is
\* rendered as ordinary text, the body as it is.
C8_QuizIffFourOptions ==
  pstage # "new" =>
    /\ pmsg.role # USER =>
         (pquiz.parsed <=> Len(CollectedOptions(pmsg.content)) = 4)
    /\ pquiz.parsed => Len(pquiz.options) = 4
    /\ ~pquiz.parsed => (~PView.isQuiz /\ PView.text = pmsg.content)

\* five option lines: ordinary text
C8_Witness ==
  /\ pstage = "rendered" /\ pmsg.role = ASSISTANT
  /\ Len(CollectedOptions(pmsg.content)) = 5
  /\ ~PView.isQuiz /\ PView.text = pmsg.content

\* C9: only a message of the assistant is parsed as a quiz question; for the
\* roles user and system parseQuizQuestion returns null whatever the body.
C9_OnlyAssistantParsed ==
  (pstage # "new" /\ pmsg.role # ASSISTANT) => ~pquiz.parsed

LettersAndTexts(options) ==
  [i \in 1..Len(options) |-> <<options[i].letter, options[i].text>>]

\* C10: the body that comes back from the server (options marked, feedback
\* line appended, [CORRECT:X] kept) parses to the same question text, the same
\* option letters and texts in the same order and the same hidden letter as
\* the body before the answer.
C10_RoundTripKeepsQuestion ==
  (pstage # "new" /\ porig # <<>>) =>
    /\ pquiz.parsed
    /\ pquiz.question = pprev.question
    /\ LettersAndTexts(pquiz.options) = LettersAndTexts(pprev.options)
    /\ pquiz.correctAnswerLetter = pprev.correctAnswerLetter

\* a well-formed question, answered wrongly, parsed again
C10_Witness ==
  /\ pstage = "rendered"
  /\ porig = join(<<QuestionLine>> \o PlainOptions(4) \o <<markerLine("B")>>)
  /\ pquiz.isAnswered
  /\ pquiz.options[1].status = "incorrect" /\ pquiz.options[2].status = "correct"

OptionLetters(options) == [i \in 1..Len(options) |-> options[i].letter]

Marks == {CheckMark, CrossMark}

\* where the letter of an option stands in a trimmed line: at its start, or
\* after a mark and the blanks that follow it
LetterPosition(t) ==
  IF t # <<>> /\ t[1] \in Marks THEN skipSpaces(t, 2) ELSE 1

\* the letter a line is written with ("" when it does not start like an option)
WrittenLetter(line) ==
  LET t == trim(line)
      p == LetterPosition(t)
  IN IF p + 1 <= Len(t) /\ t[p] \in Letters /\ t[p + 1] = "." THEN t[p] ELSE ""

\* the letters at the start of the lines of a body, in the order of the lines
WrittenLetters(content) ==
  LET lines == split(content)
      all == [i \in 1..Len(lines) |-> WrittenLetter(lines[i])]
  IN SelectSeq(all, LAMBDA l : l # "")

RECURSIVE IsSubsequence(_, _)
IsSubsequence(s, t) ==
  IF s = <<>> THEN TRUE
  ELSE IF t = <<>> THEN FALSE
  ELSE IF Head(s) = Head(t) THEN IsSubsequence(Tail(s), Tail(t))
  ELSE IsSubsequence(s, Tail(t))

\* C17 as stated: every quiz question that is returned has the letters A, B,
\* C, D in that order, each once.
C17_LettersInOrder ==
  (pstage # "new" /\ pquiz.parsed) => OptionLetters(pquiz.options) = LetterOrder

\* C17, amended: every quiz question that is returned has exactly four
\* options, each with a letter among A..D; the letters are those written at
\* the start of option lines of the body, in the order of the lines, so they
\* are A, B, C, D for a body whose lines are written with these letters in
\* that order.  Order and repetition are not checked.
C17_FourOptionsLettersAsWritten ==
  (pstage # "new" /\ pquiz.parsed) =>
    /\ Len(pquiz.options) = 4
    /\ \A i \in 1..4 : pquiz.options[i].letter \in Letters
    /\ IsSubsequence(OptionLetters(pquiz.options), WrittenLetters(pmsg.content))
    /\ WrittenLetters(pmsg.content) = LetterOrder =>
         OptionLetters(pquiz.options) = LetterOrder

\* a question with a line before its options, written A, B, C, D
C17_Witness ==
  /\ pstage = "rendered" /\ pquiz.parsed
  /\ pquiz.question = QuestionLine
  /\ WrittenLetters(pmsg.content) = LetterOrder
  /\ OptionLetters(pquiz.options) = LetterOrder

HasFeedbackPhrase(text) ==
  \/ includes(text, <<CheckMark, SP, "Correct">>)
  \/ includes(text, <<CrossMark, SP, "Incorrect">>)

BodyLines(content) ==
  LET lines == split(content) IN [n \in 1..Len(lines) |-> lines[n]]

\* C18: a parsed question is answered, with a feedback that is not empty,
\* exactly if a line of its body holds the feedback phrase; no such line gets
\* into the question text or into the text of an option (so a marked option
\* line alone does not make the question answered).
C18_AnsweredIffFeedbackLine ==
  (pstage # "new" /\ pquiz.parsed) =>
    LET lines == BodyLines(pmsg.content)
        phrase == \E n \in DOMAIN lines : HasFeedbackPhrase(lines[n])
    IN /\ (pquiz.isAnswered /\ pquiz.feedback # <<>>) <=> phrase
       /\ pquiz.isAnswered <=> pquiz.feedback # <<>>
       /\ ~HasFeedbackPhrase(pquiz.question)
       /\ \A i \in 1..Len(pquiz.options) : ~HasFeedbackPhrase(pquiz.options[i].text)

RECURSIVE OptionsByLine(_)
\* the options the loop collects, one line at a time
OptionsByLine(lines) ==
  IF lines = <<>> THEN <<>>
  ELSE scanLine(ScanInit, Head(lines)).options \o OptionsByLine(Tail(lines))

\* the status the form of a line stands for
StatusOfForm(t) ==
  IF t[1] = CheckMark THEN "correct"
  ELSE IF t[1] = CrossMark THEN "incorrect"
  ELSE "normal"

\* what follows the letter and the dot of a line, trimmed
TextAfterLetter(t) == trim(SubSeq(t, LetterPosition(t) + 2, Len(t)))

\* C19: a line that is collected as an option gives one option; its status
\* is correct for the form with the check mark, incorrect for the form with
\* the cross mark and normal for the plain form; its letter and its text are
\* the ones that follow the mark, and the mark is no part of the text.  The
\* options of a question are the options of its lines, in their order.
C19_OptionStatusByForm ==
  pstage # "new" =>
    /\ \A n \in DOMAIN split(pmsg.content) :
         LET line == split(pmsg.content)[n]
             o == scanLine(ScanInit, line).options
             t == trim(line)
         IN /\ Len(o) <= 1
            /\ o # <<>> =>
                 /\ o[1].status = StatusOfForm(t)
                 /\ o[1].letter = WrittenLetter(line)
                 /\ o[1].letter \in Letters
                 /\ o[1].text = TextAfterLetter(t)
                 /\ \A k \in 1..Len(o[1].text) : o[1].text[k] \notin Marks
    /\ pquiz.parsed => pquiz.options = OptionsByLine(split(pmsg.content))

\* a question with one option of each form, the marked ones written with and
\* without a blank after the mark, and a plain option with blanks around it
C19_Witness ==
  /\ pstage = "rendered" /\ pquiz.parsed
  /\ {pquiz.options[i].status : i \in 1..4} = {"correct", "incorrect", "normal"}

\* C30: on a parsed question without a hidden letter (no [CORRECT:X] line
\* with X in A..D) a click on an option changes nothing: selectedAnswer and
\* instantFeedback stay null and nothing is handed to onSendMessage, and the
\* option buttons are enabled before and after.
C30_ClickWithoutLetterDoesNothing ==
  [][(pclicks' # pclicks /\ pquiz.parsed /\ pquiz.correctAnswerLetter = "") =>
       /\ pinst' = pinst /\ pinst = InstanceInit
       /\ psent' = psent /\ psent = <<>>
       /\ ~optionDisabled(pinst, pquiz) /\ ~optionDisabled(pinst', pquiz')]_vars

\* two clicks on a question without a hidden letter
C30_Witness ==
  /\ pstage = "rendered" /\ pquiz.parsed /\ pquiz.correctAnswerLetter = ""
  /\ Len(pclicks) = MaxClicks /\ pclicks[1] # pclicks[2]
  /\ pinst = InstanceInit /\ psent = <<>>

HasFooterPhrase(text) ==
  \/ includes(text, <<"Type your answer">>)
  \/ includes(text, <<"or 'stop' to end">>)

\* a line that holds [CORRECT:X], X one of A..D
HasAnswerMarker(line) ==
  \E i \in 1..(Len(line) - 2) :
    line[i] = "[CORRECT:" /\ line[i + 1] \in Letters /\ line[i + 2] = "]"

IsCollectedAsOption(line) == scanLine(ScanInit, line).options # <<>>

\* the lines before the first option line
LinesBeforeOptions(content) ==
  LET lines == BodyLines(content)
      optionLines == {n \in DOMAIN lines : IsCollectedAsOption(lines[n])}
      first == IF optionLines = {} THEN Len(lines) + 1 ELSE MinOf(optionLines)
  IN SubSeq(lines, 1, first - 1)

\* a line that holds the hidden marker, the feedback phrase or a footer phrase
IsExcludedLine(l) ==
  HasAnswerMarker(l) \/ HasFeedbackPhrase(l) \/ HasFooterPhrase(l)

NoFooterAsOption(content) ==
  \A n \in DOMAIN BodyLines(content) :
    HasFooterPhrase(BodyLines(content)[n]) =>
      ~IsCollectedAsOption(BodyLines(content)[n])

\* C20 as stated: the question text of a parsed question is the lines before
\* the first option line, in their order and joined by line breaks, without
\* the lines of the hidden marker, the feedback and the footer.
C20_QuestionIsLinesBeforeOptions ==
  (pstage # "new" /\ pquiz.parsed) =>
    pquiz.question = join(SelectSeq(LinesBeforeOptions(pmsg.content),
                                    LAMBDA l : ~IsExcludedLine(l)))

\* C20, amended: the question text is the lines before the first option line
\* that hold something other than white space, as they are written, in their
\* order and joined by line breaks, without the lines of the hidden marker,
\* the feedback and the footer; no later line is part of it; a line with a
\* footer phrase is never collected as an option.
C20_QuestionIsNonBlankLinesBeforeOptions ==
  (pstage # "new" /\ pquiz.parsed) =>
    /\ pquiz.question =
         join(SelectSeq(LinesBeforeOptions(pmsg.content),
                        LAMBDA l : trim(l) # <<>> /\ ~IsExcludedLine(l)))
    /\ NoFooterAsOption(pmsg.content)

\* a question line, two options, the marker, a line of text and two more
\* options: the line of text is not part of the question
C20_Witness ==
  /\ pstage = "rendered" /\ pquiz.parsed
  /\ pquiz.question = QuestionLine
  /\ \E n \in DOMAIN BodyLines(pmsg.content) :
       /\ BodyLines(pmsg.content)[n] = <<"Pick one">>
       /\ n > 2

-----------------------------------------------------------------------------
(* Claims about ChatWindow (SpecWindow) *)

LastMessage == messages[Len(messages)]

\* C12: once the effect of a list update has run, if the latest message is
\* an assistant message that contains 'Quiz Complete', isQuizActive is false,
\* whatever else the message contains.
C12_QuizCompleteEndsQuiz ==
  (/\ EffectsDone
   /\ messages # <<>>
   /\ LastMessage.role = ASSISTANT
   /\ isQuizComplete(LastMessage.content)) => ~isQuizActive

\* after a question that made the quiz active, a termination message that
\* quotes a question (option lines, the word Question)
C12_Witness ==
  /\ EffectsDone
  /\ Len(messages) = 2
  /\ detectQuizActive(FALSE, <<messages[1]>>)
  /\ LastMessage.role = ASSISTANT
  /\ isQuizComplete(LastMessage.content)
  /\ hasQuizQuestion(LastMessage.content)
  /\ ~isQuizActive

\* the position of the most recent assistant message (0: none)
LatestAssistant(msgs) ==
  LET at == {i \in 1..Len(msgs) : msgs[i].role = ASSISTANT}
  IN IF at = {} THEN 0 ELSE MaxOf(at)

\* awaiting_answer: the most recent assistant message parses as a question
\* without an answer
AwaitingAnswer(msgs) ==
  /\ LatestAssistant(msgs) # 0
  /\ LET q == QuizData(msgs[LatestAssistant(msgs)])
     IN q.parsed /\ ~q.isAnswered

\* C16: after every update of the message list (its effect has run),
\* isQuizActive is true exactly if the most recent assistant message parses
\* as a question that has no answer yet.
C16_ActiveIffAwaitingAnswer ==
  EffectsDone => (isQuizActive <=> AwaitingAnswer(messages))

-----------------------------------------------------------------------------
(* Claims about the chat page (Spec) *)

\* the termination reply to 'stop' is on display
StopApplied(msgs) ==
  \E i \in 1..(Len(msgs) - 1) :
    /\ msgs[i].role = USER /\ msgs[i].content = StopCommand
    /\ msgs[i + 1].role = ASSISTANT /\ isQuizComplete(msgs[i + 1].content)

IsOpenQuestion(m) == QuizData(m).parsed /\ ~QuizData(m).isAnswered

\* no question without an answer follows a termination message
EndsTerminated(msgs) ==
  /\ StopApplied(msgs)
  /\ \A i \in 1..Len(msgs), j \in 1..Len(msgs) :
       (msgs[i].role = ASSISTANT /\ isQuizComplete(msgs[i].content) /\ j > i)
         => ~IsOpenQuestion(msgs[j])

\* C13: when the termination reply to 'stop' is on display and the result of
\* a request sent before that arrives with a question that is not on display,
\* the late result does not decide what the chat ends with: the list on
\* display still holds the termination reply and no open question after it.
C13_LateQuestionDiscarded ==
  [][\A r \in reqs :
       (/\ StopApplied(messages)
        /\ ~StopApplied(r.messages)
        /\ r.content # StopCommand
        /\ r.phase \in {"response", "reloaded"}
        /\ r \notin reqs'
        /\ \E i \in 1..Len(r.payload) :
             /\ IsOpenQuestion(r.payload[i])
             /\ \A j \in 1..Len(messages) : messages[j].id # r.payload[i].id)
       => EndsTerminated(messages')
    ]_vars

\* C14: at most one answer is in flight for the chat.
C14_OneAnswerInFlight ==
  Cardinality({r \in reqs : IsAnswerLetter(r.content)}) <= 1

\* the position of the most recent assistant message of the server (the
\* error messages the page makes up are passed over; 0: none)
LatestReply(msgs) ==
  LET at == {i \in 1..Len(msgs) :
               msgs[i].role = ASSISTANT /\ msgs[i].id[1] = "msg"}
  IN IF at = {} THEN 0 ELSE MaxOf(at)

\* C15: the only component whose options can be clicked is the one of the
\* most recent assistant message; the options of every earlier question are
\* disabled, answered or not.
C15_OnlyLatestQuestionLive ==
  \A k \in DOMAIN inst :
    (inst[k].quizData.parsed /\ ~optionDisabled(inst[k].state, inst[k].quizData))
      => k[2] = LatestReply(messages)

\* the reply to an answer that the server has scored: the next question or
\* the end of the quiz (a letter that meets no open question gets the plain
\* reply)
IsQuizAnswerPair(pair) ==
  IsAnswerLetter(pair[1].content) /\ pair[2].content # PlainReplyBody

DistinctIds(msgs) ==
  \A i, j \in 1..Len(msgs) : msgs[i].id = msgs[j].id => i = j

\* a component shows a question with the marks and the feedback of the server
ShowsServerMarks(c) ==
  /\ c.quizData.parsed /\ c.quizData.isAnswered
  /\ \E i \in 1..4 : c.quizData.options[i].status = "correct"
  /\ \A i \in 1..4 :
       buttonStatus(c.quizData.options[i], c.state, c.quizData)
         = c.quizData.options[i].status

\* C21: the pair of a quiz-answer response is never appended to the list:
\* the handler reloads, and when the reload arrives the list on display is
\* the list of the server (without FEEDBACK: messages), it shows an answered
\* question with the marks of the server and no message twice.
C21_AnswerResponseReloads ==
  [][\A r \in reqs :
       /\ r.phase = "response" =>
            /\ ~IsQuizAnswerPair(r.payload)
            /\ ~startsWith(r.payload[2].content, <<"FEEDBACK:">>)
       /\ (r.phase = "reloaded"
             /\ \E r2 \in reqs' : r2.rid = r.rid /\ r2.phase = "loadChats") =>
            /\ messages' = loadMessagesFilter(r.payload)
            /\ DistinctIds(messages')
            /\ \E k \in DOMAIN inst' : ShowsServerMarks(inst'[k])]_vars

\* the reload after an answer has arrived: the first question is answered,
\* the next one is on display
C21_Witness ==
  /\ \E r \in reqs : r.phase = "loadChats" /\ IsAnswerLetter(r.content)
  /\ Len(messages) = 4 /\ DistinctIds(messages)
  /\ QuizData(messages[2]).isAnswered
  /\ QuizData(messages[4]).parsed /\ ~QuizData(messages[4]).isAnswered

\* C22: while a send is in flight isLoading is true.
C22_LoadingWhileInFlight == reqs # {} => isLoading

\* the POST of r fails in this step
SendFailsStep(r) ==
  r.phase = "sent" /\ \A r2 \in reqs' : r2.rid # r.rid

\* the GET of the reload of r fails in this step
ReloadFailsStep(r) ==
  /\ r.phase = "reloading"
  /\ \E r2 \in reqs' : r2.rid = r.rid /\ r2.phase = "loadChats"

\* C29: when the send of an option click fails, or the reload after it, the
\* question is still locked: a component that holds the click keeps its
\* selectedAnswer and instantFeedback and goes on showing the verdict computed
\* on the click if it showed it, and wherever the question is on display its
\* options are disabled.
C29_FailedSendKeepsLock ==
  [][\A r \in reqs, o \in optimistic :
       (o.rid = r.rid /\ (SendFailsStep(r) \/ ReloadFailsStep(r))) =>
         /\ \A k \in DOMAIN inst :
              (k[1] = o.qid /\ inst[k].state.selectedAnswer = o.letter) =>
                /\ k \in DOMAIN inst' /\ inst'[k].state = inst[k].state
                /\ overlayActive(inst[k].state, inst[k].quizData) =>
                     overlayActive(inst'[k].state, inst'[k].quizData)
         /\ \A k \in DOMAIN inst' :
              k[1] = o.qid => optionDisabled(inst'[k].state, inst'[k].quizData)]_vars

\* C3: for one unanswered question at most one answer letter goes to the
\* server before its reload arrives, whether clicked or typed.
C3_AtMostOneLetterPerQuestion ==
  \A a \in forwarded, b \in forwarded : a.qid = b.qid => a.rid = b.rid

ViewOf(k) == Render(MessageOf(messages, k).content, inst[k].quizData, inst[k].state)

\* the verdict of the feedback line parsed from the server's body
ServerSaysCorrect(q) == startsWith(q.feedback, <<CheckMark, SP, "Correct">>)
ServerSaysIncorrect(q) == startsWith(q.feedback, <<CrossMark, SP, "Incorrect">>)

ServerBadges(status) ==
  IF status = "correct" THEN <<"CORRECT!">>
  ELSE IF status = "incorrect" THEN <<"WRONG">> ELSE <<>>

\* C5: when the parsed message is answered, statuses, badges and feedback
\* line are those of the server's body and nothing of instantFeedback shows.
C5_ServerViewOverwrites ==
  \A k \in DOMAIN inst :
    LET q == inst[k].quizData
        view == ViewOf(k)
    IN (q.parsed /\ q.isAnswered) =>
         /\ \A i \in 1..Len(q.options) :
              /\ view.options[i].status = q.options[i].status
              /\ view.options[i].badges = ServerBadges(q.options[i].status)
         /\ view.instant = <<>>
         /\ view.feedback = <<q.feedback>>

\* the answered body is rendered while instantFeedback is still set
C5_Witness ==
  \E k \in DOMAIN inst :
    /\ inst[k].quizData.parsed /\ inst[k].quizData.isAnswered
    /\ inst[k].state.instantFeedback.set
    /\ inst[k].state.instantFeedback.selectedLetter
         # inst[k].quizData.correctAnswerLetter

OptimisticStatus(letter, selected, correct) ==
  IF letter = selected THEN (IF selected = correct THEN "correct" ELSE "incorrect")
  ELSE IF letter = correct THEN "correct" ELSE "normal"

-----------------------------------------------------------------------------
(* Claims about Home, its chat list and the upload (SpecChats) *)

\* C26: once no request is in flight, every displayed message is a message
\* of the active chat: a response of loadMessages or sendMessage for a chat
\* that is no longer the active one is not on display.
C26_DisplayedAreOfActiveChat ==
  reqs = {} =>
    \A i \in 1..Len(messages) : messages[i].chat_id = activeChat

\* the active chat of the render whose handleSendMessage is called in this
\* step: the render the file was picked in for a finished upload, else the
\* current one
CallerChat ==
  IF \E u \in reqs \ reqs' : u.kind = "upload"
  THEN (CHOOSE u \in reqs \ reqs' : u.kind = "upload").activeChat
  ELSE activeChat

\* C28: handleSendMessage called with no active chat only asks for a new
\* chat and returns: isLoading, the list and the active chat are as before
\* and no message is posted; when the chat is created it is a new chat, it
\* is the active one and the list is empty; the content of the call is
\* never posted.
C28_NoActiveChatCreatesOnly ==
  [][/\ (nsent' = nsent + 1 /\ CallerChat = Null) =>
          /\ isLoading' = isLoading
          /\ messages' = messages
          /\ activeChat' = activeChat
          /\ server' = server
          /\ \A q \in reqs' \ reqs : q.kind = "create"
     /\ \A r \in reqs, q \in reqs' :
          (r.rid = q.rid /\ r.call = "handleSendMessage" /\ r.kind = "create"
             /\ q.kind # "create") =>
            /\ q.kind = "load"
            /\ activeChat' = q.chat_id
            /\ activeChat' \notin DOMAIN server
            /\ activeChat' \in chats'
            /\ server'[activeChat'].stored = <<>>
            /\ messages' = <<>>
            /\ isLoading' = isLoading
     /\ \A r \in reqs, q \in reqs' :
          (r.rid = q.rid /\ r.call = "handleSendMessage" /\ r.kind # "send") =>
            q.kind # "send"]_vars

\* the only call was a typed message without an active chat; the new chat
\* is active, empty, and nothing was posted to it
C28_Witness ==
  /\ nsent = 1 /\ nops = 0 /\ reqs = {}
  /\ activeChat \notin {Null, ChatName(1), ChatName(2)}
  /\ messages = <<>>
  /\ ~isLoading
  /\ server[activeChat].stored = <<>>
  /\ Len(server[ChatName(1)].stored) = 2

\* the text the failure of a send is reported with: the detail of the
\* server if there is one (the two validation errors of SendErrors, joined),
\* else the message of the error, else a fixed text
ReportedText(error) ==
  CASE error.detail.kind = "array" ->
         <<"body", ".", "content", ":", SP, "field required", ";", SP,
           "field", ":", SP, "validation error">>
    [] error.detail.kind = "string" -> error.detail.text
    [] error.detail.kind = "object" ->
         <<"{", "\"", "code", "\"", ":", "true", "}">>
    [] OTHER -> IF error.message # <<>> THEN error.message
                ELSE <<"Unknown error occurred">>

\* the failures of sends that are handled in this step
FailedNow == {d \in done' \ done : d.error # <<>>}

\* C23: when a send fails, the displayed list is the list displayed before
\* with one more message at its end, an assistant message with an error id
\* and the content 'Error: ' and the reported text; isLoading is false.
C23_FailedSendAppendsError ==
  [][\A d \in FailedNow :
       /\ Len(messages') = Len(messages) + 1
       /\ SubSeq(messages', 1, Len(messages)) = messages
       /\ messages'[Len(messages')].id = ErrorId(d.rid)
       /\ messages'[Len(messages')].role = ASSISTANT
       /\ messages'[Len(messages')].content =
            <<"Error:", SP>> \o ReportedText(d.error[1])
       /\ isLoading' = FALSE]_vars

\* C24: no displayed message, of whatever role, has a content that starts
\* with 'FEEDBACK:'.
C24_NoFeedbackMessageDisplayed ==
  \A i \in 1..Len(messages) : ~startsWith(messages[i].content, <<"FEEDBACK:">>)

\* the messages a finished send d has to leave on display: its user message
\* and its reply, or its error message; protocol messages are not displayed
ExchangeOf(d) ==
  {id \in d.ids :
     \A i \in 1..Len(server[d.chat].stored) :
       server[d.chat].stored[i].id = id =>
         ~startsWith(server[d.chat].stored[i].content, <<"FEEDBACK:">>)}

Displayed(c, id) ==
  \E i \in 1..Len(messages) : messages[i].chat_id = c /\ messages[i].id = id

\* C27: when sends on the active chat that overlapped are all over (and the
\* user did nothing but send), the displayed list holds the user message and
\* the reply, or the error message, of each of them.
C27_NoExchangeDropped ==
  (reqs = {} /\ nops = 0 /\ \E d \in done : d.with # {}) =>
    \A d \in done : \A id \in ExchangeOf(d) : Displayed(d.chat, id)

\* requests that start in this step
StartedNow == {q \in reqs' : \A r \in reqs : r.rid # q.rid}

\* requests that are over after this step
EndedNow == {r \in reqs : \A q \in reqs' : q.rid # r.rid}

NamedPdf(name) == name # <<>> /\ name[Len(name)] = ".pdf"

\* the user picks a file in this step
PickedNow == picked' # picked /\ picked' # <<>>

\* C25: 'quiz pdf' is sent only in the step in which an upload of a file
\* named '.pdf' ends with a successful response; a picked file with another
\* name starts no request, a picked '.pdf' file starts an upload and nothing
\* else; a failed upload ends without a request being started; in both
\* cases an error is set and uploading is false.
C25_QuizPdfOnlyAfterUpload ==
  [][/\ \A q \in StartedNow :
          q.content = QuizPdfCommand =>
            \E u \in EndedNow :
              u.kind = "upload" /\ u.phase = "ok" /\ NamedPdf(u.content)
     /\ PickedNow =>
          IF NamedPdf(picked')
          THEN \A q \in StartedNow : q.kind = "upload" /\ q.content = picked'
          ELSE /\ StartedNow = {}
               /\ uploadError' # Null
               /\ uploading' = FALSE
     /\ \A u \in EndedNow :
          (u.kind = "upload" /\ u.phase # "ok") =>
            /\ StartedNow = {}
            /\ uploadError' # Null
            /\ uploading' = FALSE]_vars

\* an upload of a PDF succeeded and 'quiz pdf' is on its way to the chat
\* that was active when the file was picked
C25_Witness ==
  /\ ~uploading /\ uploadError = Null /\ picked = <<>> /\ nops = 1
  /\ \E q \in reqs :
       q.kind = "send" /\ q.content = QuizPdfCommand /\ q.phase = "sent"

====
